---- MODULE Spec2Model ----
(***************************************************************************)
(* Model of the tictoc account service (src/src/main.rs): three axum       *)
(* handlers - create_user, read_user, login - over one Postgres table      *)
(* `users`.  Every handler awaits exactly one SQL statement, so a request  *)
(* is two steps: the call (the code up to the await) and the statement     *)
(* together with the code after it.  Requests of different clients         *)
(* interleave at the await.  A failed `.unwrap()` panics the handler: the  *)
(* request ends without a response.                                        *)
(***************************************************************************)
EXTENDS Integers, Sequences, FiniteSets, TLC

\* ---------------------------------------------------------------- bounds
MaxCalls == 3
NClients == 2

Clients == 1..NClients

\* ---------------------------------------------------------------- inputs
Emails    == {"chad@gmail.com", "user@gmail.com"}
Passwords == {"password", "wrong"}
Salts     == {"salt1", "salt2"}

\* The bodies posted to /users/create: the two accounts of the tests and a
\* third that takes Chad's email with another name and password.
CreateRequests ==
    {[name |-> "Chad", email |-> "chad@gmail.com", password |-> "password"],
     [name |-> "User", email |-> "user@gmail.com", password |-> "password"],
     [name |-> "User", email |-> "chad@gmail.com", password |-> "wrong"]}

\* ------------------------------------------------------------- constants
BcryptCost == 10
Secret     == "secret"

VARIABLES users, seq, req, log
vars == <<users, seq, req, log>>

\* ------------------------------------------------------------ bcrypt
\* The one-way function itself, abstracted as an injective tag of its inputs.
Bcrypt(password, cost, salt) == <<"bcrypt", password, cost, salt>>

\* hash(password, cost) with the salt the RNG produced: "$2b$<cost>$<salt><digest>".
HashWithSalt(password, cost, salt) == <<"2b", cost, salt, Bcrypt(password, cost, salt)>>

\* verify(password, hash): Err on a structurally malformed hash, else the
\* digest recomputed with the stored cost and salt is compared.
Verify(password, h) ==
    IF Len(h) # 4 \/ h[1] # "2b"
    THEN "Err"
    ELSE IF h[4] = Bcrypt(password, h[2], h[3]) THEN "true" ELSE "false"

\* ------------------------------------------------------------ serde_json
\* Mutant: the whole User row is handed to the serialiser.
FullUser(row) == row

\* struct CreateUserResponse { id, name, email }
CreateUserResponse(row) == [id |-> row.id, name |-> row.name, email |-> row.email]

\* Field declaration order of the structs User / CreateUserResponse.
FieldOrder == <<"id", "name", "email", "password_hash">>

\* serde_json::to_string of a struct: one member per field of the struct, in
\* declaration order.
ToJson(view) ==
    LET fields == SelectSeq(FieldOrder, LAMBDA f : f \in DOMAIN view)
    IN  [i \in DOMAIN fields |-> <<fields[i], view[fields[i]]>>]

JsonKeys(json) == {json[i][1] : i \in DOMAIN json}

JsonGet(json, key) == (CHOOSE i \in DOMAIN json : json[i][1] = key)

\* serde deserialisation into CreateUserResponse: every field is required,
\* unknown members are ignored.
FromJson(json) ==
    IF {"id", "name", "email"} \subseteq JsonKeys(json)
    THEN [ok |-> TRUE,
          value |-> [id    |-> json[JsonGet(json, "id")][2],
                     name  |-> json[JsonGet(json, "name")][2],
                     email |-> json[JsonGet(json, "email")][2]]]
    ELSE [ok |-> FALSE, value |-> [id |-> 0, name |-> "", email |-> ""]]

\* ---------------------------------------------------------- jsonwebtoken
\* Header::default()
DefaultHeader == [typ |-> "JWT", alg |-> "HS256"]

HmacSha256(key, message) == <<"hmac-sha256", key, message>>

\* encode(&header, &claims, &EncodingKey::from_secret(key))
Encode(header, claims, key) ==
    [header    |-> header,
     payload   |-> ToJson(claims),
     signature |-> HmacSha256(key, <<header, ToJson(claims)>>)]

\* decode::<CreateUserResponse>(token, &DecodingKey::from_secret(key), &validation)
\* with validate_exp = false and no required claims.
Decode(token, key, alg) ==
    IF token.header.alg # alg
       \/ token.signature # HmacSha256(key, <<token.header, token.payload>>)
    THEN [ok |-> FALSE, value |-> [id |-> 0, name |-> "", email |-> ""]]
    ELSE FromJson(token.payload)

\* struct LoginUserResponse { token } serialised.
LoginUserResponse(token) == << <<"token", token>> >>

\* ------------------------------------------------------------ bodies
\* The String a handler returns: a JSON document or a plain message.
JsonBody(json) == [kind |-> "json", text |-> "", json |-> json]
TextBody(text) == [kind |-> "text", text |-> text, json |-> <<>>]
NoBody         == [kind |-> "none", text |-> "", json |-> <<>>]

\* ------------------------------------------------------------ the table
Ids(rows) == {r.id : r \in rows}

\* Mutant: ORDER BY id DESC.
MaxRow(rows) == CHOOSE r \in rows : \A q \in rows : r.id >= q.id

MinRow(rows) == CHOOSE r \in rows : \A q \in rows : r.id <= q.id

RECURSIVE OrderById(_)
\* ORDER BY id
OrderById(rows) ==
    IF rows = {} THEN <<>>
    ELSE <<MinRow(rows)>> \o OrderById(rows \ {MinRow(rows)})

\* Mutant: the newest row is left out of the result.
SelectUsersStale(table) ==
    [i \in 1..(Cardinality(table) - 1) |-> CreateUserResponse(OrderById(table)[i])]

\* SELECT id, name, email FROM users ORDER BY id
SelectUsers(table) ==
    [i \in 1..Cardinality(table) |-> CreateUserResponse(OrderById(table)[i])]

\* SELECT ... FROM users WHERE email = $1
SelectByEmail(table, email) == {r \in table : r.email = email}

\* The schema the migrations create (not part of src/): email is unique.
UniqueViolation(table, email) == \E r \in table : r.email = email

\* nextval of the id sequence behind the auto-increment primary key.
NextVal(s) == s + 1

\* the row INSERT ... VALUES ($1, $2, $3) builds
NewRow(id, name, email, password_hash) ==
    [id |-> id, name |-> name, email |-> email, password_hash |-> password_hash]

\* ------------------------------------------------------------ requests
NoHash == <<>>
Idle == [pc |-> "idle", name |-> "", email |-> "", password |-> "",
         password_hash |-> NoHash, seen |-> {}]

Started == Len(log) + Cardinality({c \in Clients : req[c].pc # "idle"})

\* ids that create_user calls have already returned to their callers
CreatedAt == {j \in DOMAIN log : log[j].op = "create_user" /\ log[j].outcome = "ok"}
Returned  == {log[i].response.json[1][2] : i \in CreatedAt}

Entry(op, r, outcome, response) ==
    [op |-> op, name |-> r.name, email |-> r.email, password |-> r.password,
     seen |-> r.seen, outcome |-> outcome, response |-> response]

Init ==
    /\ users = {}
    /\ seq = 0
    /\ req = [c \in Clients |-> Idle]
    /\ log = <<>>

\* A handler whose unwrap() met an Err: the request ends with no response.
Panic(c, op) ==
    /\ log' = Append(log, Entry(op, req[c], "panic", NoBody))
    /\ req' = [req EXCEPT ![c] = Idle]

\* A handler that returned `response` to its caller.
Return(c, op, response) ==
    /\ log' = Append(log, Entry(op, req[c], "ok", response))
    /\ req' = [req EXCEPT ![c] = Idle]

\* ------------------------------------------------------------ create_user
\* POST /users/create up to the await: hash(payload.password, 10).unwrap().
\* hash draws its salt from the system RNG and returns Err when that fails.
CreateUserCall(c) ==
    /\ req[c].pc = "idle"
    /\ Started < MaxCalls
    /\ \E payload \in CreateRequests :
         \/ \E salt \in Salts :
              /\ req' = [req EXCEPT ![c] =
                           [pc |-> "insert", name |-> payload.name,
                            email |-> payload.email, password |-> payload.password,
                            password_hash |->
                                HashWithSalt(payload.password, BcryptCost, salt),
                            seen |-> Returned]]
              /\ UNCHANGED <<users, seq, log>>
         \/ /\ log' = Append(log, [Entry("create_user", Idle, "panic", NoBody)
                                     EXCEPT !.name = payload.name,
                                            !.email = payload.email,
                                            !.password = payload.password,
                                            !.seen = Returned])
            /\ UNCHANGED <<users, seq, req>>

\* Mutant: the id is the number of accounts the handler saw when it was
\* called, plus one, and nothing rejects a repeated id.
CreateUserDbRacy(c) ==
    /\ req[c].pc = "insert"
    /\ seq' = NextVal(seq)
    /\ users' = users \cup {NewRow(Cardinality(req[c].seen) + 1, req[c].name,
                                   req[c].email, req[c].password_hash)}
    /\ Return(c, "create_user",
              JsonBody(ToJson(CreateUserResponse(
                  NewRow(Cardinality(req[c].seen) + 1, req[c].name, req[c].email,
                         req[c].password_hash)))))

\* Mutant: a repeated email replaces the account that holds it.
CreateUserDbUpsert(c) ==
    /\ req[c].pc = "insert"
    /\ seq' = NextVal(seq)
    /\ users' = {r \in users : r.email # req[c].email}
                  \cup {NewRow(seq', req[c].name, req[c].email, req[c].password_hash)}
    /\ Return(c, "create_user",
              JsonBody(ToJson(CreateUserResponse(
                  NewRow(seq', req[c].name, req[c].email, req[c].password_hash)))))

\* INSERT INTO users (name, email, password_hash) ... RETURNING id, name, email,
\* then .unwrap() and serde_json::to_string(&user).
CreateUserDb(c) ==
    /\ req[c].pc = "insert"
    /\ \/ \* the backend cannot be reached: nothing is executed
          /\ Panic(c, "create_user")
          /\ UNCHANGED <<users, seq>>
       \/ \* the id default is evaluated, then the unique index rejects the row
          /\ UniqueViolation(users, req[c].email)
          /\ seq' = NextVal(seq)
          /\ Panic(c, "create_user")
          /\ UNCHANGED users
       \/ /\ ~UniqueViolation(users, req[c].email)
          /\ seq' = NextVal(seq)
          /\ users' = users \cup {NewRow(seq', req[c].name, req[c].email,
                                         req[c].password_hash)}
          /\ Return(c, "create_user",
                    JsonBody(ToJson(CreateUserResponse(
                        NewRow(seq', req[c].name, req[c].email, req[c].password_hash)))))

\* ------------------------------------------------------------ read_user
\* GET /users up to the await.
ReadUserCall(c) ==
    /\ req[c].pc = "idle"
    /\ Started < MaxCalls
    /\ req' = [req EXCEPT ![c] = [Idle EXCEPT !.pc = "select_all", !.seen = Returned]]
    /\ UNCHANGED <<users, seq, log>>

\* SELECT id, name, email FROM users ORDER BY id, .unwrap(), to_string(&users).
ReadUserDb(c) ==
    /\ req[c].pc = "select_all"
    /\ \/ Panic(c, "read_user")
       \/ Return(c, "read_user",
                 JsonBody([i \in DOMAIN SelectUsers(users) |->
                              ToJson(SelectUsers(users)[i])]))
    /\ UNCHANGED <<users, seq>>

\* ------------------------------------------------------------ login
\* Mutant: the claims are built with the fields mixed up.
UserDataMixed(user) == [id |-> user.id, name |-> user.email, email |-> user.name]

\* let user_data = CreateUserResponse { id: user.id, name: user.name, email: user.email }
UserData(user) == [id |-> user.id, name |-> user.name, email |-> user.email]

\* Mutant: the two failure messages are exchanged.
LoginAnswerSwapped(found, password) ==
    IF found = {} THEN TextBody("Invalid password")
    ELSE LET user == CHOOSE r \in found : TRUE
         IN  IF Verify(password, user.password_hash) # "true"
             THEN TextBody("User not found")
             ELSE JsonBody(LoginUserResponse(
                      Encode(DefaultHeader, UserData(user), Secret)))

\* What login answers once fetch_optional produced `found` (a set holding the
\* row, or the empty set for None).
LoginAnswer(found, password) ==
    IF found = {} THEN TextBody("User not found")
    ELSE LET user == CHOOSE r \in found : TRUE
         IN  IF Verify(password, user.password_hash) # "true"
             THEN TextBody("Invalid password")
             ELSE JsonBody(LoginUserResponse(
                      Encode(DefaultHeader, UserData(user), Secret)))

\* POST /users/login up to the await.
LoginCall(c) ==
    /\ req[c].pc = "idle"
    /\ Started < MaxCalls
    /\ \E email \in Emails, password \in Passwords :
         req' = [req EXCEPT ![c] = [Idle EXCEPT !.pc = "select_email",
                                                 !.email = email,
                                                 !.password = password]]
    /\ UNCHANGED <<users, seq, log>>

\* Mutant: a successful login draws a session id from the id sequence.
LoginDbSession(c) ==
    /\ req[c].pc = "select_email"
    /\ \/ /\ SelectByEmail(users, req[c].email) = {}
          /\ Return(c, "login", LoginAnswer({}, req[c].password))
          /\ seq' = seq
       \/ \E user \in SelectByEmail(users, req[c].email) :
            /\ Return(c, "login", LoginAnswer({user}, req[c].password))
            /\ seq' = IF Verify(req[c].password, user.password_hash) = "true"
                      THEN NextVal(seq) ELSE seq
    /\ UNCHANGED users

\* SELECT ... WHERE email = $1, fetch_optional, .unwrap(), then the match.
\* verify(..).unwrap() panics on a malformed stored hash.
LoginDb(c) ==
    /\ req[c].pc = "select_email"
    /\ \/ Panic(c, "login")
       \/ /\ SelectByEmail(users, req[c].email) = {}
          /\ Return(c, "login", LoginAnswer({}, req[c].password))
       \/ \E user \in SelectByEmail(users, req[c].email) :
            IF Verify(req[c].password, user.password_hash) = "Err"
            THEN Panic(c, "login")
            ELSE Return(c, "login", LoginAnswer({user}, req[c].password))
    /\ UNCHANGED <<users, seq>>

Next ==
    \E c \in Clients :
        \/ CreateUserCall(c)
        \/ CreateUserDb(c)
        \/ ReadUserCall(c)
        \/ ReadUserDb(c)
        \/ LoginCall(c)
        \/ LoginDb(c)

Spec == Init /\ [][Next]_vars

\* ================================================================ claims
OkAt(op) == {i \in DOMAIN log : log[i].op = op /\ log[i].outcome = "ok"}

\* the ids create_user returned, in the order of the calls' completion
RECURSIVE ReturnedIds(_)
ReturnedIds(n) ==
    IF n = 0 THEN <<>>
    ELSE IF n \in CreatedAt
         THEN Append(ReturnedIds(n - 1), log[n].response.json[1][2])
         ELSE ReturnedIds(n - 1)

\* the account a successful create_user call registered, as the caller knows it
Registered(j) ==
    ToJson([id |-> log[j].response.json[1][2], name |-> log[j].name,
            email |-> log[j].email])

\* C1: over every sequence of create_user calls against an initially empty
\* store, failing calls included, the ids the successful calls return are
\* 1, 2, 3, ... in order: no gap, no repeat.
C1_IdsDenseFromOne ==
    \A k \in DOMAIN ReturnedIds(Len(log)) : ReturnedIds(Len(log))[k] = k

\* C2: every answer of read_user lists the accounts in ascending id order and
\* holds exactly the accounts registered by the create_user calls that
\* succeeded before it, each as {id, name, email}; it is empty when there is
\* none.
C2_ListExactAndOrdered ==
    \A i \in OkAt("read_user") :
        LET out == log[i].response.json
        IN  /\ \A k, l \in DOMAIN out : k < l => out[k][1][2] < out[l][1][2]
            /\ {out[k] : k \in DOMAIN out} = {Registered(j) : j \in {m \in CreatedAt : m < i}}
            /\ Len(out) = Cardinality({m \in CreatedAt : m < i})

C2_Witness ==
    \E i \in OkAt("read_user") : Len(log[i].response.json) = 2

\* C5 as stated: once N create_user calls, all called before any of them
\* returned, have ended, the store holds exactly N accounts with pairwise
\* distinct ids.
C5_CountIsCalls ==
    (/\ \A c \in Clients : req[c].pc = "idle"
     /\ Len(log) >= 2
     /\ \A i \in DOMAIN log : log[i].op = "create_user" /\ log[i].seen = {})
        => /\ Cardinality(users) = Len(log)
           /\ Cardinality(Ids(users)) = Cardinality(users)

\* C5 amended: in every interleaving of create_user calls the store holds
\* exactly one account per call that succeeded, the ids of the accounts are
\* pairwise distinct and are the ids the successful calls returned.
C5_CountIsSuccesses ==
    /\ Cardinality(users) = Cardinality(CreatedAt)
    /\ Cardinality(Ids(users)) = Cardinality(users)
    /\ Ids(users) = Returned
    /\ \A i, j \in CreatedAt :
         i # j => log[i].response.json[1][2] # log[j].response.json[1][2]

\* two create_user calls that overlapped (the later one was called before the
\* earlier one returned) and both succeeded
C5_Witness ==
    \E i, j \in CreatedAt :
        /\ i < j
        /\ log[i].response.json[1][2] \notin log[j].seen

\* C6: every call of create_user, read_user and login ends by returning a
\* result to its caller; none ends in a panic.
C6_NeverPanics ==
    \A i \in DOMAIN log : log[i].outcome # "panic"

\* C7: an answer of read_user that overlapped create_user calls holds only
\* complete accounts of creates that were applied, and holds every account
\* whose create had returned before read_user was called.
C7_ListSnapshot ==
    \A i \in OkAt("read_user") :
        LET out == log[i].response.json
        IN  /\ \A k \in DOMAIN out : \E j \in CreatedAt : j < i /\ out[k] = Registered(j)
            /\ log[i].seen \subseteq {out[k][1][2] : k \in DOMAIN out}

\* a read_user that was called after one create returned and answered after a
\* second create, concurrent with it, was applied
C7_Witness ==
    \E i \in OkAt("read_user") :
        /\ log[i].seen # {}
        /\ \E k \in DOMAIN log[i].response.json :
              log[i].response.json[k][1][2] \notin log[i].seen

\* the step in which client c's login returns a response
LoginReturns(c) ==
    /\ req[c].pc = "select_email"
    /\ req'[c].pc = "idle"
    /\ log'[Len(log')].outcome = "ok"

\* the stored hash of account u verifies against the password
Verifies(password, u) == Verify(password, u.password_hash) = "true"

TokenAt == {i \in OkAt("login") : log[i].response.kind = "json"}

\* C4: the token of a successful login decodes, with the same key, to claims
\* equal to the public view {id, name, email} that create_user returned for
\* the account, and the token carries no other claim.
C4_TokenRoundTrip ==
    \A i \in TokenAt :
        LET token   == log[i].response.json[1][2]
            decoded == Decode(token, Secret, "HS256")
        IN  /\ decoded.ok
            /\ JsonKeys(token.payload) = {"id", "name", "email"}
            /\ \E j \in CreatedAt :
                  /\ j < i
                  /\ log[j].email = log[i].email
                  /\ FromJson(log[j].response.json).value = decoded.value
                  /\ ToJson(decoded.value) = Registered(j)

C4_Witness ==
    \E i \in TokenAt : Decode(log[i].response.json[1][2], Secret, "HS256").ok

\* a JSON object that is an account's public view and nothing more
PublicOnly(obj) ==
    /\ JsonKeys(obj) = {"id", "name", "email"}
    /\ \A k \in DOMAIN obj :
          obj[k][1] \in {"name", "email"} => obj[k][2] \notin Passwords

\* C8: nothing create_user, read_user or login returns, and no claim set of a
\* token, carries a password_hash or a password: accounts leave only as
\* {id, name, email}.
C8_NoSecretLeaves ==
    /\ \A i \in CreatedAt : PublicOnly(log[i].response.json)
    /\ \A i \in OkAt("read_user") :
          \A k \in DOMAIN log[i].response.json : PublicOnly(log[i].response.json[k])
    /\ \A i \in TokenAt :
          /\ JsonKeys(log[i].response.json) = {"token"}
          /\ PublicOnly(log[i].response.json[1][2].payload)

\* an account was returned by create_user, listed by read_user and put in a token
C8_Witness ==
    /\ CreatedAt # {}
    /\ \E i \in OkAt("read_user") : Len(log[i].response.json) > 0
    /\ TokenAt # {}

\* C9: an account in the store stays in it with the same id, name, email and
\* password_hash in every later state, and a new account never takes an id
\* that an account already holds.
C9_AccountsPermanent ==
    [][/\ \A r \in users : r \in users'
       /\ \A r \in users' \ users : \A q \in users : q.id # r.id
       /\ Cardinality(Ids(users')) = Cardinality(users')
      ]_vars

\* a second registration was attempted for a held email while two accounts exist
C9_Witness ==
    /\ Cardinality(users) = 2
    /\ \E i \in DOMAIN log : log[i].op = "create_user" /\ log[i].outcome = "panic"

\* client c takes a step of read_user or login
ReadOnlyStep(c) ==
    \/ req[c].pc \in {"select_all", "select_email"} /\ req'[c].pc = "idle"
    \/ req[c].pc = "idle" /\ req'[c].pc \in {"select_all", "select_email"}

\* C10: no step of read_user or login, whatever its outcome, changes the
\* accounts or the next id, and a login that did not find a verifying account
\* returns no token.
C10_ReadOnly ==
    [][\A c \in Clients :
          ReadOnlyStep(c) =>
              /\ users' = users
              /\ seq' = seq
              /\ (LoginReturns(c)
                  /\ ~\E u \in users : u.email = req[c].email
                                        /\ Verifies(req[c].password, u))
                   => log'[Len(log')].response.kind = "text"
      ]_vars

\* a create_user succeeded after a login was answered with a token
C10_Witness ==
    \E i \in TokenAt : \E j \in CreatedAt : i < j

====
